---- MODULE Spec2Model ----
(***************************************************************************)
(* Model of the Udemy coupon worker (bot_worker.py): the cursor store      *)
(* (load_last_sent / save_last_sent / last_sent_state), the fingerprint    *)
(* (make_id), the new-item resolver (find_new), the per-source dispatch    *)
(* loop (process_source), the scheduled job (job_scrape_all) with the      *)
(* scheduler's interval, and the network calls of a cycle.                 *)
(***************************************************************************)
EXTENDS Integers, Sequences, FiniteSets, TLC

(***************************************************************************)
(* Bounds of the model                                                     *)
(***************************************************************************)
\* longest page a scrape returns in the model
MaxPage == 3
\* number of scrape cycles the scheduler triggers
MaxCycles == 2
\* number of process crashes
MaxCrashes == 1

(***************************************************************************)
(* Python values                                                           *)
(***************************************************************************)
\* Python's None (also JSON null); no str of the model equals it
None == "<None>"

\* str(v) as an f-string formats it: None is rendered as the text "None"
Str(v) == IF v = None THEN "None" ELSE v

\* dict.get(key): the value, or None when the key is absent
Get(d, key) == IF key \in DOMAIN d THEN d[key] ELSE None

\* list(reversed(s))
Reverse(s) == [k \in 1..Len(s) |-> s[Len(s) + 1 - k]]

\* the empty dict {}
EmptyDict == [k \in {} |-> None]

\* dict.setdefault(key, value)
SetDefault(d, key, value) ==
    IF key \in DOMAIN d THEN d
    ELSE [k \in DOMAIN d \cup {key} |-> IF k = key THEN value ELSE d[k]]

\* d[key] = value
SetItem(d, key, value) ==
    [k \in DOMAIN d \cup {key} |-> IF k = key THEN value ELSE d[k]]

(***************************************************************************)
(* Configuration                                                           *)
(***************************************************************************)
\* job_scrape_all taking the sources in the other order
SOURCES_Reversed == <<"discudemy", "couponscorpion">>

\* the sources of job_scrape_all, in the order it processes them
SOURCES == <<"couponscorpion", "discudemy">>

SourceNames == {SOURCES[k] : k \in 1..Len(SOURCES)}

\* process_source calls scraper_obj.scrape(max_posts=12)
max_posts == 12

\* CouponScorpionScraper.scrape(self, max_posts=12) takes the keyword;
\* DiscUdemyScraper.scrape(self, max_pages=5, delay_range=(2, 5)) does not,
\* so the call raises TypeError
ScrapeAccepts(name) == name = "couponscorpion"

(***************************************************************************)
(* Items and pages                                                         *)
(***************************************************************************)
Slugs == {"a", "b", "c"}

\* the items a couponscorpion scrape yields: _extract_from_post always sets
\* the keys "slug" and "coupon_code"
Items == [slug : Slugs, coupon_code : {"X"}, title : {"T"}]

PageLen == IF MaxPage < max_posts THEN MaxPage ELSE max_posts

\* scrape returns at most max_posts items, newest first
Pages == UNION {[1..n -> Items] : n \in 0..PageLen}

(***************************************************************************)
(* HELPERS                                                                 *)
(***************************************************************************)
make_id(source, slug, coupon) ==
    Str(source) \o "|" \o Str(slug) \o ":" \o Str(coupon)

\* an id that takes in the title
ItemId_WithTitle(source, it) ==
    make_id(source, Get(it, "slug"), Get(it, "coupon_code"))
        \o "#" \o Str(Get(it, "title"))

\* the cid find_new and process_source compute for an item
ItemId(source, it) == make_id(source, Get(it, "slug"), Get(it, "coupon_code"))

\* ScanFrom with `continue` in place of `break`: the matched item is skipped
\* and the scan goes on behind it
RECURSIVE ScanFrom_Continue(_, _, _, _, _)
ScanFrom_Continue(items, last_id, source, k, acc) ==
    IF k > Len(items) THEN acc
    ELSE IF ItemId(source, items[k]) = last_id
         THEN ScanFrom_Continue(items, last_id, source, k + 1, acc)
         ELSE ScanFrom_Continue(items, last_id, source, k + 1,
                                Append(acc, items[k]))

\* the for loop of find_new from position k on, new_items being acc
RECURSIVE ScanFrom(_, _, _, _, _)
ScanFrom(items, last_id, source, k, acc) ==
    IF k > Len(items) THEN acc
    ELSE IF ItemId(source, items[k]) = last_id THEN acc
    ELSE ScanFrom(items, last_id, source, k + 1, Append(acc, items[k]))

\* find_new with the append ahead of the test: the matched item is returned too
RECURSIVE ScanThrough(_, _, _, _, _)
ScanThrough(items, last_id, source, k, acc) ==
    IF k > Len(items) THEN acc
    ELSE IF ItemId(source, items[k]) = last_id THEN Append(acc, items[k])
    ELSE ScanThrough(items, last_id, source, k + 1, Append(acc, items[k]))

find_new_Inclusive(items, last_id, source) ==
    IF last_id = None THEN Reverse(items)
    ELSE Reverse(ScanThrough(items, last_id, source, 1, <<>>))

\* find_new without the reversal on the first run
find_new_Unreversed(items, last_id, source) ==
    IF last_id = None THEN items
    ELSE Reverse(ScanFrom(items, last_id, source, 1, <<>>))

find_new(items, last_id, source) ==
    IF last_id = None THEN Reverse(items)
    ELSE Reverse(ScanFrom(items, last_id, source, 1, <<>>))

(***************************************************************************)
(* LAST SENT STORAGE                                                       *)
(***************************************************************************)
\* the file data/last_sent.json: absent, holding a JSON document, or
\* truncated / partly written (not parseable)
FileMissing == [st |-> "missing", data |-> EmptyDict]
FileTorn == [st |-> "torn", data |-> EmptyDict]
FileOf(obj) == [st |-> "ok", data |-> obj]

load_last_sent(file) == IF file.st = "ok" THEN file.data ELSE EmptyDict

\* last_sent_state after module import
LoadState(file) ==
    SetDefault(SetDefault(load_last_sent(file), "discudemy", None),
               "couponscorpion", None)

VARIABLES
    up,               \* the process is running
    pc,               \* where the process is (where it was, once it crashed)
    src,              \* index in SOURCES of the source being processed, 0 if none
    last_sent_state,  \* the in-memory cursors
    disk,             \* the file data/last_sent.json
    items,            \* the page of the current process_source call
    fresh,            \* the batch of the current process_source call
    i,                \* index in fresh of the course being handled
    cycles,           \* scrape cycles started
    crashes,          \* crashes so far
    outcome,          \* history: how the current process_source call went
    results,          \* history: send_to_telegram's result for fresh[1..]
    startCur,         \* history: the source's cursor when the batch was resolved
    sentLife,         \* history: ids posted successfully since process start
    repeats,          \* history: an id was posted twice for one source since
                      \*   process start
    nodup,            \* history: no page since process start repeated an id
    ahead,            \* history: every page since process start listed the
                      \*   cursor's item behind not yet posted items only
    wfail,            \* history: failed writes of the current process_source
                      \*   call since its last successful one
    syncStart,        \* history: the file held the in-memory cursors when
                      \*   the batch was resolved
    wfailLife,        \* history: a write failed since process start
    raised,           \* history: sources whose scrape raised this cycle
    owed,             \* history: sources whose scrape raised in the previous
                      \*   cycle and was not called yet in this one
    sched,            \* history: what the scheduler did when its interval
                      \*   last sched ("waiting": it has not sched since
                      \*   process start)
    net,              \* the network call in progress (NetIdle if none)
    env,              \* the environment: BOT_TOKEN and CHANNEL_ID
    bot,              \* bot.py: its coupon database and where its jobs are
                      \*   (BotIdle outside the specification of bot.py)
    listing           \* the URLs of the source's listing page as served,
                      \*   top (newest) first, when a scraper collects them

vars == <<up, pc, src, last_sent_state, disk, items, fresh, i, cycles, crashes,
          outcome, results, startCur, sentLife, repeats, nodup, ahead, wfail,
          syncStart, wfailLife, raised, owed, sched, net, env, bot,
          listing>>

\* os.getenv: None when the variable is unset, else its value
EnvValues == {None, "", "set"}

Envs == [BOT_TOKEN : EnvValues, CHANNEL_ID : EnvValues]

\* both credentials are set
EnvSet == [BOT_TOKEN |-> "set", CHANNEL_ID |-> "set"]

\* Python's truth value of an optional str
Truthy(v) == v # None /\ v # ""

\* the test of __main__ looking at BOT_TOKEN only
ConfigOk_TokenOnly(e) == Truthy(e.BOT_TOKEN)

\* __main__: not (not BOT_TOKEN or not CHANNEL_ID)
ConfigOk(e) == Truthy(e.BOT_TOKEN) /\ Truthy(e.CHANNEL_ID)

\* bot.py at import: coupon_db = CouponDatabase(), no job running.
\*   main: where __main__ is; scrape, retry_count: scrape_discudemy;
\*   yielded: the slugs of the valid coupons DiscUdemy had for the last pass
\*     of the loop of scrape_discudemy;
\*   pc, attempt, tg, held: send_coupon, its loops and the coupon it has;
\*   scrapes, sends: the calls of the two jobs begun so far;
\*   handed: the scraped slugs get_next_coupon returned, in order;
\*   popped: those of them returned to the current call of send_coupon;
\*   delivered: the slugs of the messages Telegram accepted
BotIdle ==
    [main |-> "scrape", scrape |-> "idle", retry_count |-> 0, scrapes |-> 0,
     pc |-> "idle", attempt |-> 0, tg |-> 0, held |-> None, sends |-> 0,
     coupons |-> <<>>, posted_slugs |-> {}, yielded |-> {},
     handed |-> <<>>, popped |-> <<>>, delivered |-> {}]

\* no network call in progress
NetIdle == [call |-> "none", st |-> "idle", attempt |-> 0, log |-> <<>>]

name == IF src \in 1..Len(SOURCES) THEN SOURCES[src] ELSE None

course == fresh[i]

\* the cursor read back from the file instead of from last_sent_state
Cursor_FromFile(source) == Get(LoadState(disk), source)

\* last_sent_state.get(source)
Cursor(source) == Get(last_sent_state, source)

NoneSent == [s \in SourceNames |-> {}]

\* no two items of the page have the same id
NoDupIds(page, source) ==
    \A j, k \in 1..Len(page) :
        ItemId(source, page[j]) = ItemId(source, page[k]) => j = k

\* the page lists the cursor's item with only not yet posted items ahead of it
CursorAhead(page, source) ==
    \E k \in 1..Len(page) :
        /\ ItemId(source, page[k]) = Cursor(source)
        /\ \A j \in 1..(k - 1) : ItemId(source, page[j]) \notin sentLife[source]

Init ==
    /\ up = FALSE
    /\ pc = "idle"
    /\ src = 0
    /\ last_sent_state = EmptyDict
    /\ disk = FileMissing
    /\ items = <<>>
    /\ fresh = <<>>
    /\ i = 0
    /\ cycles = 0
    /\ crashes = 0
    /\ outcome = "none"
    /\ results = <<>>
    /\ startCur = None
    /\ sentLife = NoneSent
    /\ repeats = FALSE
    /\ nodup = TRUE
    /\ ahead = TRUE
    /\ wfail = 0
    /\ syncStart = TRUE
    /\ wfailLife = FALSE
    /\ raised = {}
    /\ owed = {}
    /\ sched = "waiting"
    /\ net = NetIdle
    /\ env \in Envs
    /\ bot = BotIdle
    /\ listing = <<>>

\* the end of one iteration of the for loop of process_source; after the
\* last one process_source returns
NextCourse ==
    /\ IF i < Len(fresh)
       THEN i' = i + 1 /\ pc' = "send"
       ELSE i' = i /\ pc' = "close"
    /\ UNCHANGED <<src, items, fresh, startCur, outcome>>

\* the process starts with BOT_TOKEN or CHANNEL_ID missing: after the module
\* import (which reads the file into a memory that is lost at once) __main__
\* logs the error and calls sys.exit(1)
StartExits ==
    /\ ~up
    /\ ~ConfigOk(env)
    /\ pc' = "exited"
    /\ UNCHANGED <<up, src, last_sent_state, disk, items, fresh, i, cycles,
                   crashes, outcome, results, startCur, sentLife, repeats,
                   nodup, ahead, wfail, syncStart, wfailLife, raised, owed,
                   sched, net, env, bot, listing>>

\* the process starts with both credentials set; module import:
\* last_sent_state is loaded from the file
Start ==
    /\ ~up
    /\ ConfigOk(env)
    /\ up' = TRUE
    /\ pc' = "idle"
    /\ last_sent_state' = LoadState(disk)
    /\ src' = 0
    /\ items' = <<>>
    /\ fresh' = <<>>
    /\ i' = 0
    /\ outcome' = "none"
    /\ results' = <<>>
    /\ startCur' = None
    /\ sentLife' = NoneSent
    /\ repeats' = FALSE
    /\ nodup' = TRUE
    /\ ahead' = TRUE
    /\ wfail' = 0
    /\ syncStart' = TRUE
    /\ wfailLife' = FALSE
    /\ raised' = {}
    /\ owed' = {}
    /\ sched' = "waiting"
    /\ UNCHANGED <<net, disk, cycles, crashes, env, bot, listing>>

\* Trigger without the limit of one running instance: the job is run again
\* while it is running
Trigger_Overlapping ==
    /\ up
    /\ cycles < MaxCycles
    /\ cycles' = cycles + 1
    /\ pc' = "fetch"
    /\ src' = 1
    /\ owed' = raised
    /\ raised' = {}
    /\ sched' = "ran"
    /\ UNCHANGED <<up, last_sent_state, disk, items, fresh, i, crashes,
                   outcome, results, startCur, sentLife, repeats, nodup, ahead,
                   wfail, syncStart, wfailLife, net, env, bot, listing>>

\* the interval elapses with no instance of the job running: the scheduler
\* runs job_scrape_all, which starts with the first source
Trigger ==
    /\ up
    /\ pc = "idle"
    /\ cycles < MaxCycles
    /\ cycles' = cycles + 1
    /\ pc' = "fetch"
    /\ src' = 1
    /\ owed' = raised
    /\ raised' = {}
    /\ sched' = "ran"
    /\ UNCHANGED <<up, last_sent_state, disk, items, fresh, i, crashes,
                   outcome, results, startCur, sentLife, repeats, nodup, ahead,
                   wfail, syncStart, wfailLife, net, env, bot, listing>>

\* the interval elapses while job_scrape_all is still running: the scheduler
\* skips the run (add_job leaves max_instances at its default, one running
\* instance per job); nothing of the program changes
TriggerSkipped ==
    /\ up
    /\ pc # "idle"
    /\ sched' = "skipped"
    /\ UNCHANGED <<up, pc, src, last_sent_state, disk, items, fresh, i, cycles,
                   crashes, outcome, results, startCur, sentLife, repeats,
                   nodup, ahead, wfail, syncStart, wfailLife, raised, owed,
                   net, env, bot, listing>>

\* ScrapeRaises resetting the cursors
ScrapeRaises_Forgets ==
    /\ up
    /\ pc = "fetch"
    /\ ~ScrapeAccepts(name)
    /\ raised' = raised \cup {name}
    /\ owed' = owed \ {name}
    /\ outcome' = "raised"
    /\ pc' = "close"
    /\ startCur' = Cursor(name)
    /\ syncStart' = (LoadState(disk) = last_sent_state)
    /\ last_sent_state' = [k \in DOMAIN last_sent_state |-> None]
    /\ UNCHANGED <<sched, net, up, src, disk, items, fresh, i, cycles, crashes,
                   results, sentLife, repeats, nodup, ahead, wfail, wfailLife,
                   env, bot, listing>>

\* process_source: scraper_obj.scrape(max_posts=12) raises; return
ScrapeRaises ==
    /\ up
    /\ pc = "fetch"
    /\ ~ScrapeAccepts(name)
    /\ raised' = raised \cup {name}
    /\ owed' = owed \ {name}
    /\ outcome' = "raised"
    /\ pc' = "close"
    /\ startCur' = Cursor(name)
    /\ syncStart' = (LoadState(disk) = last_sent_state)
    /\ UNCHANGED <<sched, net, up, src, last_sent_state, disk, items, fresh, i,
                   cycles, crashes, results, sentLife, repeats, nodup, ahead,
                   wfail, wfailLife, env, bot, listing>>

\* ScrapeReturns calling save_last_sent when there is nothing to post
ScrapeReturns_Saves(page) ==
    /\ up
    /\ pc = "fetch"
    /\ ScrapeAccepts(name)
    /\ owed' = owed \ {name}
    /\ items' = page
    /\ startCur' = Cursor(name)
    /\ syncStart' = (LoadState(disk) = last_sent_state)
    /\ IF page = <<>>
       THEN /\ outcome' = "empty"
            /\ pc' = "close"
            /\ disk' = FileOf(last_sent_state)
            /\ UNCHANGED <<fresh, i, nodup, ahead>>
       ELSE /\ fresh' = find_new(page, Cursor(name), name)
            /\ nodup' = (nodup /\ NoDupIds(page, name))
            /\ ahead' = (ahead /\ (Cursor(name) # None => CursorAhead(page, name)))
            /\ IF fresh' = <<>>
               THEN /\ outcome' = "nonew" /\ pc' = "close" /\ i' = i
                    /\ disk' = FileOf(last_sent_state)
               ELSE /\ outcome' = "batch" /\ pc' = "send" /\ i' = 1
                    /\ disk' = disk
    /\ UNCHANGED <<sched, net, up, src, last_sent_state, cycles, crashes,
                   results, sentLife, repeats, wfail, wfailLife, raised, env,
                   bot, listing>>

\* process_source: scrape returns page; return on an empty page or when
\* find_new finds nothing new, else enter the for loop
ScrapeReturns(page) ==
    /\ up
    /\ pc = "fetch"
    /\ ScrapeAccepts(name)
    /\ owed' = owed \ {name}
    /\ items' = page
    /\ startCur' = Cursor(name)
    /\ syncStart' = (LoadState(disk) = last_sent_state)
    /\ IF page = <<>>
       THEN /\ outcome' = "empty"
            /\ pc' = "close"
            /\ UNCHANGED <<fresh, i, nodup, ahead>>
       ELSE /\ fresh' = find_new(page, Cursor(name), name)
            /\ nodup' = (nodup /\ NoDupIds(page, name))
            /\ ahead' = (ahead /\ (Cursor(name) # None => CursorAhead(page, name)))
            /\ IF fresh' = <<>>
               THEN outcome' = "nonew" /\ pc' = "close" /\ i' = i
               ELSE outcome' = "batch" /\ pc' = "send" /\ i' = 1
    /\ UNCHANGED <<sched, net, up, src, last_sent_state, disk, cycles, crashes,
                   results, sentLife, repeats, wfail, wfailLife, raised, env,
                   bot, listing>>

\* SendOk leaving the write to the end of the batch
SendOk_NoSave ==
    /\ up
    /\ pc = "send"
    /\ LET cid == ItemId(name, course)
       IN /\ last_sent_state' = SetItem(last_sent_state, name, cid)
          /\ sentLife' = [sentLife EXCEPT ![name] = @ \cup {cid}]
          /\ repeats' = (repeats \/ cid \in sentLife[name])
    /\ results' = Append(results, TRUE)
    /\ IF i < Len(fresh)
       THEN i' = i + 1 /\ pc' = "send"
       ELSE i' = i /\ pc' = "save"
    /\ UNCHANGED <<sched, net, up, syncStart, src, disk, items, fresh, cycles,
                   crashes, outcome, startCur, nodup, ahead, wfail, wfailLife,
                   raised, owed, env, bot, listing>>

\* send_to_telegram(course) returns True: the cursor is advanced in memory
SendOk ==
    /\ up
    /\ pc = "send"
    /\ LET cid == ItemId(name, course)
       IN /\ last_sent_state' = SetItem(last_sent_state, name, cid)
          /\ sentLife' = [sentLife EXCEPT ![name] = @ \cup {cid}]
          /\ repeats' = (repeats \/ cid \in sentLife[name])
    /\ results' = Append(results, TRUE)
    /\ pc' = "save"
    /\ UNCHANGED <<sched, net, syncStart, up, src, disk, items, fresh, i,
                   cycles, crashes, outcome, startCur, nodup, ahead, wfail,
                   wfailLife, raised, owed, env, bot, listing>>

\* SendFails advancing the cursor all the same
SendFails_Advances ==
    /\ up
    /\ pc = "send"
    /\ results' = Append(results, FALSE)
    /\ last_sent_state' = SetItem(last_sent_state, name, ItemId(name, course))
    /\ NextCourse
    /\ UNCHANGED <<sched, net, up, syncStart, disk, cycles, crashes, sentLife,
                   repeats, nodup, ahead, wfail, wfailLife, raised, owed, env,
                   bot, listing>>

\* send_to_telegram(course) returns False
SendFails ==
    /\ up
    /\ pc = "send"
    /\ results' = Append(results, FALSE)
    /\ NextCourse
    /\ UNCHANGED <<sched, net, syncStart, up, last_sent_state, disk, cycles,
                   crashes, sentLife, repeats, nodup, ahead, wfail, wfailLife,
                   raised, owed, env, bot, listing>>

\* save_last_sent: open(LAST_SENT_FILE, "w") raises, the file is untouched
SaveOpenFails ==
    /\ up
    /\ pc = "save"
    /\ wfail' = wfail + 1
    /\ wfailLife' = TRUE
    /\ NextCourse
    /\ UNCHANGED <<sched, net, syncStart, up, last_sent_state, disk, cycles,
                   crashes, results, sentLife, repeats, nodup, ahead, raised,
                   owed, env, bot, listing>>

\* save_last_sent: open(LAST_SENT_FILE, "w") creates or truncates the file
SaveOpen ==
    /\ up
    /\ pc = "save"
    /\ disk' = FileTorn
    /\ pc' = "dump"
    /\ UNCHANGED <<sched, net, syncStart, up, src, last_sent_state, items,
                   fresh, i, cycles, crashes, outcome, results, startCur,
                   sentLife, repeats, nodup, ahead, wfail, wfailLife, raised,
                   owed, env, bot, listing>>

\* save_last_sent: json.dump writes the whole document
DumpOk ==
    /\ up
    /\ pc = "dump"
    /\ disk' = FileOf(last_sent_state)
    /\ wfail' = 0
    /\ NextCourse
    /\ UNCHANGED <<sched, net, syncStart, up, last_sent_state, cycles, crashes,
                   results, sentLife, repeats, nodup, ahead, wfailLife, raised,
                   owed, env, bot, listing>>

\* DumpFails with the exception escaping save_last_sent, process_source and
\* job_scrape_all: the job ends there
DumpFails_Propagates ==
    /\ up
    /\ pc = "dump"
    /\ wfailLife' = TRUE
    /\ pc' = "idle"
    /\ src' = 0
    /\ items' = <<>>
    /\ fresh' = <<>>
    /\ i' = 0
    /\ outcome' = "none"
    /\ results' = <<>>
    /\ startCur' = None
    /\ wfail' = 0
    /\ syncStart' = TRUE
    /\ UNCHANGED <<sched, net, up, last_sent_state, disk, cycles, crashes,
                   sentLife, repeats, nodup, ahead, raised, owed, env, bot,
                   listing>>

\* save_last_sent: json.dump raises, the exception is swallowed
DumpFails ==
    /\ up
    /\ pc = "dump"
    /\ wfail' = wfail + 1
    /\ wfailLife' = TRUE
    /\ NextCourse
    /\ UNCHANGED <<sched, net, syncStart, up, last_sent_state, disk, cycles,
                   crashes, results, sentLife, repeats, nodup, ahead, raised,
                   owed, env, bot, listing>>

\* job_scrape_all: process_source returned; close the scraper and go on to
\* the next source, or the job ends
CloseScraper ==
    /\ up
    /\ pc = "close"
    /\ items' = <<>>
    /\ fresh' = <<>>
    /\ i' = 0
    /\ outcome' = "none"
    /\ results' = <<>>
    /\ startCur' = None
    /\ wfail' = 0
    /\ syncStart' = TRUE
    /\ IF src < Len(SOURCES)
       THEN pc' = "fetch" /\ src' = src + 1
       ELSE pc' = "idle" /\ src' = 0
    /\ UNCHANGED <<sched, net, up, last_sent_state, disk, cycles, crashes,
                   sentLife, repeats, nodup, ahead, wfailLife, raised, owed,
                   env, bot, listing>>

\* the process dies: the memory is lost, the file survives (the other
\* variables keep what the process was doing, until it starts again)
Crash ==
    /\ up
    /\ crashes < MaxCrashes
    /\ crashes' = crashes + 1
    /\ up' = FALSE
    /\ last_sent_state' = EmptyDict
    /\ UNCHANGED <<sched, net, syncStart, pc, src, disk, items, fresh, i,
                   cycles, outcome, results, startCur, sentLife, repeats,
                   nodup, ahead, wfail, wfailLife, raised, owed, env, bot,
                   listing>>

Next ==
    \/ Start
    \/ StartExits
    \/ Trigger
    \/ ScrapeRaises
    \/ \E page \in Pages : ScrapeReturns(page)
    \/ SendOk
    \/ SendFails
    \/ SaveOpenFails
    \/ SaveOpen
    \/ DumpOk
    \/ DumpFails
    \/ CloseScraper
    \/ Crash

Spec == Init /\ [][Next]_vars

(***************************************************************************)
(* The job under the scheduler's clock, on the pages of the two end-to-end *)
(* scenarios. Spec leaves out the firings of the interval that are         *)
(* skipped, which change nothing in the program; here they are steps.      *)
(***************************************************************************)
ScenarioItem(s) == [slug |-> s, coupon_code |-> "X", title |-> "T"]

\* the page of scenario 1, newest first
PageABCD == <<ScenarioItem("A"), ScenarioItem("B"), ScenarioItem("C"),
              ScenarioItem("D")>>

\* the page of scenario 2: E is new, D has dropped off
PageEABC == <<ScenarioItem("E"), ScenarioItem("A"), ScenarioItem("B"),
              ScenarioItem("C")>>

ScenarioPages == {<<>>, PageABCD, PageEABC}

NextTimed ==
    \/ Start
    \/ StartExits
    \/ Trigger
    \/ TriggerSkipped
    \/ ScrapeRaises
    \/ \E page \in ScenarioPages : ScrapeReturns(page)
    \/ SendOk
    \/ SendFails
    \/ SaveOpenFails
    \/ SaveOpen
    \/ DumpOk
    \/ DumpFails
    \/ CloseScraper
    \/ Crash

SpecTimed == Init /\ [][NextTimed]_vars

(***************************************************************************)
(* The job started on a file that another version of the program wrote:    *)
(* its document has a key that is no source's name.                        *)
(***************************************************************************)
\* documents with the extra key "legacy", without and with a cursor
StoreFiles ==
    {FileOf([k \in {"legacy"} |-> "v1"]),
     FileOf([k \in {"legacy", "couponscorpion"} |->
                IF k = "legacy" THEN "v1"
                ELSE ItemId("couponscorpion", ScenarioItem("A"))])}

InitStore ==
    /\ up = FALSE
    /\ pc = "idle"
    /\ src = 0
    /\ last_sent_state = EmptyDict
    /\ disk \in StoreFiles
    /\ items = <<>>
    /\ fresh = <<>>
    /\ i = 0
    /\ cycles = 0
    /\ crashes = 0
    /\ outcome = "none"
    /\ results = <<>>
    /\ startCur = None
    /\ sentLife = NoneSent
    /\ repeats = FALSE
    /\ nodup = TRUE
    /\ ahead = TRUE
    /\ wfail = 0
    /\ syncStart = TRUE
    /\ wfailLife = FALSE
    /\ raised = {}
    /\ owed = {}
    /\ sched = "waiting"
    /\ net = NetIdle
    /\ env \in Envs
    /\ bot = BotIdle
    /\ listing = <<>>

SpecStore == InitStore /\ [][NextTimed]_vars

(***************************************************************************)
(* find_new as a function: the inputs are drawn in the initial state and   *)
(* one step applies it                                                     *)
(***************************************************************************)
\* items that differ in the fields of the id and in a presentation field
ResolveItems == [slug : {"a", "b"}, coupon_code : {"X", ""}, title : {"T", "U"}]

LongSlugs == <<"s01", "s02", "s03", "s04", "s05", "s06", "s07", "s08", "s09",
               "s10", "s11", "s12">>

LongItem(k) == [slug |-> LongSlugs[k], coupon_code |-> "X", title |-> "T"]

\* pages of distinct items, up to the max_posts items a scrape returns
LongPages == {[k \in 1..n |-> LongItem(k)] : n \in (PageLen + 1)..max_posts}

\* items with a field of the id missing: the key is absent, or its value is
\* None (_extract_from_post leaves "slug" at None when its fallback raises)
SparseItems ==
    {[slug |-> None, coupon_code |-> "X", title |-> "T"],
     [slug |-> "a", coupon_code |-> None, title |-> "T"],
     [slug |-> "a", title |-> "T"],
     [slug |-> "a", coupon_code |-> "", title |-> "T"]}

SparsePages == UNION {[1..n -> SparseItems] : n \in 1..2}

ResolvePages ==
    UNION {[1..n -> ResolveItems] : n \in 0..PageLen} \cup LongPages
    \cup SparsePages

\* unset, the id of an item, or the id of an item no page lists
ResolveCursors ==
    {None, "couponscorpion|gone:X"}
    \cup {ItemId(s, it) : s \in SourceNames, it \in ResolveItems}
    \cup {ItemId(s, LongItem(k)) : s \in SourceNames, k \in 1..Len(LongSlugs)}

InitResolve ==
    /\ up = TRUE
    /\ pc = "resolve"
    /\ src \in 1..Len(SOURCES)
    /\ items \in ResolvePages
    /\ startCur \in ResolveCursors
    /\ last_sent_state =
         [s \in SourceNames |-> IF s = SOURCES[src] THEN startCur ELSE None]
    /\ disk = FileMissing
    /\ fresh = <<>>
    /\ i = 0
    /\ cycles = 0
    /\ crashes = 0
    /\ outcome = "none"
    /\ results = <<>>
    /\ sentLife = NoneSent
    /\ repeats = FALSE
    /\ nodup = TRUE
    /\ ahead = TRUE
    /\ wfail = 0
    /\ syncStart = TRUE
    /\ wfailLife = FALSE
    /\ raised = {}
    /\ owed = {}
    /\ sched = "waiting"
    /\ net = NetIdle
    /\ env = EnvSet
    /\ bot = BotIdle
    /\ listing = <<>>

\* fresh = find_new(items, last_sent_state.get(name), name)
Resolve ==
    /\ pc = "resolve"
    /\ fresh' = find_new(items, Cursor(name), name)
    /\ pc' = "resolved"
    /\ UNCHANGED <<sched, net, up, src, last_sent_state, disk, items, i,
                   cycles, crashes, outcome, results, startCur, sentLife,
                   repeats, nodup, ahead, wfail, syncStart, wfailLife, raised,
                   owed, env, bot, listing>>

NextResolve == Resolve

SpecResolve == InitResolve /\ [][NextResolve]_vars

(***************************************************************************)
(* The network calls of a cycle, one at a time: _get_soup (a page fetch),  *)
(* and send_to_telegram's shortener.shorten followed by requests.post.     *)
(* net.log lists what happened: the answer of each attempt and each sleep. *)
(***************************************************************************)
\* _get_soup(self, url, allow_redirects=True, tries=2)
tries == 2

\* ShrinkMe.shorten: for _ in range(3)
shorten_range == 3

\* requests.post in send_to_telegram is called once
post_attempts == 1

Attempts(call) ==
    IF call = "get_soup" THEN tries
    ELSE IF call = "shorten" THEN shorten_range
    ELSE post_attempts

\* how an attempt can end: a good answer, an answer without a short URL
\* (shorten only), no answer within the timeout, or another exception (a
\* connection error, an HTTP error status, a body that is not JSON)
Answers(call) ==
    IF call = "shorten" THEN {"ok", "nokey", "timeout", "error"}
    ELSE {"ok", "timeout", "error"}

\* where an attempt of the call begins: _get_soup sleeps (self._sleep())
\* ahead of every request
AttemptStart(call) == IF call = "get_soup" THEN "delay" ELSE "request"

jobvars == <<up, pc, src, last_sent_state, disk, items, fresh, i, cycles,
             crashes, outcome, results, startCur, sentLife, repeats, nodup,
             ahead, wfail, syncStart, wfailLife, raised, owed, sched, env,
             bot, listing>>

InitNet ==
    /\ up = TRUE
    /\ pc = "net"
    /\ src = 1
    /\ last_sent_state = LoadState(FileMissing)
    /\ disk = FileMissing
    /\ items = <<>>
    /\ fresh = <<>>
    /\ i = 0
    /\ cycles = 1
    /\ crashes = 0
    /\ outcome = "none"
    /\ results = <<>>
    /\ startCur = None
    /\ sentLife = NoneSent
    /\ repeats = FALSE
    /\ nodup = TRUE
    /\ ahead = TRUE
    /\ wfail = 0
    /\ syncStart = TRUE
    /\ wfailLife = FALSE
    /\ raised = {}
    /\ owed = {}
    /\ sched = "ran"
    /\ env = EnvSet
    /\ bot = BotIdle
    /\ listing = <<>>
    /\ \E call \in {"get_soup", "shorten"} :
          net = [call |-> call, st |-> AttemptStart(call), attempt |-> 1,
                 log |-> <<>>]

\* the loop goes on to its next attempt, or ends without a good answer
NextAttempt(log) ==
    IF net.attempt < Attempts(net.call)
    THEN net' = [net EXCEPT !.attempt = @ + 1, !.st = AttemptStart(net.call),
                            !.log = log]
    ELSE net' = [net EXCEPT !.st = "gaveup", !.log = log]

\* _get_soup: self._sleep() ahead of the request
NetDelay ==
    /\ pc = "net"
    /\ net.st = "delay"
    /\ net' = [net EXCEPT !.st = "request", !.log = Append(@, "sleep")]
    /\ UNCHANGED jobvars

\* session.get / requests.post with a timeout: the attempt ends with an
\* answer or with an exception, at the latest when the timeout expires
NetAnswer(answer) ==
    /\ pc = "net"
    /\ net.st = "request"
    /\ answer \in Answers(net.call)
    /\ IF answer = "ok"
       THEN net' = [net EXCEPT !.st = "returned", !.log = Append(@, answer)]
       ELSE IF answer = "nokey" \/ net.call = "post"
       THEN NextAttempt(Append(net.log, answer))
       ELSE net' = [net EXCEPT !.st = "backoff", !.log = Append(@, answer)]
    /\ UNCHANGED jobvars

\* the except branch: time.sleep(0.8 + attempt) in _get_soup, time.sleep(1)
\* in shorten
NetBackoff ==
    /\ pc = "net"
    /\ net.st = "backoff"
    /\ NextAttempt(Append(net.log, "sleep"))
    /\ UNCHANGED jobvars

\* send_to_telegram: shorten has returned (the short URL, or the URL itself
\* after the last attempt); requests.post follows
NetPost ==
    /\ pc = "net"
    /\ net.call = "shorten"
    /\ net.st \in {"returned", "gaveup"}
    /\ net' = [net EXCEPT !.call = "post", !.st = AttemptStart("post"),
                          !.attempt = 1]
    /\ UNCHANGED jobvars

NextNet ==
    \/ NetDelay
    \/ \E answer \in {"ok", "nokey", "timeout", "error"} : NetAnswer(answer)
    \/ NetBackoff
    \/ NetPost

SpecNet == InitNet /\ [][NextNet]_vars

(***************************************************************************)
(* The scrapers as functions of the listing page: the URLs are collected,  *)
(* and the item of each URL is extracted, in the order of the collection.  *)
(***************************************************************************)
Urls == {"u1", "u2", "u3"}

\* listing pages: the URLs of their cards, top first; a URL may be repeated
Listings == UNION {[1..n -> Urls] : n \in 0..PageLen}

\* the item extracted from the page at the URL
UrlItem(u) == [slug |-> u, coupon_code |-> "X", title |-> "T"]

\* _collect_post_urls_from_homepage: dedupe while preserving order
unique(candidates) ==
    LET first(k) == \A j \in 1..(k - 1) : candidates[j] # candidates[k]
        keep == {k \in 1..Len(candidates) : first(k)}
        nth[n \in 1..Cardinality(keep)] ==
            CHOOSE k \in keep : Cardinality({j \in keep : j < k}) = n - 1
    IN [n \in 1..Cardinality(keep) |-> candidates[nth[n]]]

\* get_detail_urls: list(set(urls)); a set has no order of its own, its
\* iteration order follows the hashes of the strings, which differ from one
\* process to the next: any order of the distinct URLs can come out
ListOfSet(urls) ==
    LET set == {urls[k] : k \in 1..Len(urls)}
    IN {order \in [1..Cardinality(set) -> set] :
            \A j, k \in 1..Cardinality(set) : order[j] = order[k] => j = k}

\* the items of the URLs whose extraction yields one, in the order of the URLs
Extracted(urls, ok) ==
    LET Yields(u) == u \in ok
        kept == SelectSeq(urls, Yields)
    IN [k \in 1..Len(kept) |-> UrlItem(kept[k])]

InitFeed ==
    /\ up = TRUE
    /\ pc = "collect"
    /\ src \in 1..Len(SOURCES)
    /\ last_sent_state = LoadState(FileMissing)
    /\ disk = FileMissing
    /\ items = <<>>
    /\ fresh = <<>>
    /\ i = 0
    /\ cycles = 1
    /\ crashes = 0
    /\ outcome = "none"
    /\ results = <<>>
    /\ startCur = None
    /\ sentLife = NoneSent
    /\ repeats = FALSE
    /\ nodup = TRUE
    /\ ahead = TRUE
    /\ wfail = 0
    /\ syncStart = TRUE
    /\ wfailLife = FALSE
    /\ raised = {}
    /\ owed = {}
    /\ sched = "ran"
    /\ env = EnvSet
    /\ bot = BotIdle
    /\ listing \in Listings
    /\ net = NetIdle

\* CouponScorpionScraper.scrape: the posts of the homepage, then the item of
\* every post that yields one
ScrapeCouponScorpion(ok) ==
    /\ pc = "collect"
    /\ name = "couponscorpion"
    /\ items' = Extracted(unique(listing), ok)
    /\ pc' = "scraped"
    /\ UNCHANGED <<up, src, last_sent_state, disk, fresh, i, cycles, crashes,
                   outcome, results, startCur, sentLife, repeats, nodup,
                   ahead, wfail, syncStart, wfailLife, raised, owed, sched,
                   net, env, bot, listing>>

\* DiscUdemyScraper.scrape: the detail URLs of the listing page, then the
\* coupon of every URL that yields one
ScrapeDiscUdemy(order, ok) ==
    /\ pc = "collect"
    /\ name = "discudemy"
    /\ order \in ListOfSet(listing)
    /\ items' = Extracted(order, ok)
    /\ pc' = "scraped"
    /\ UNCHANGED <<up, src, last_sent_state, disk, fresh, i, cycles, crashes,
                   outcome, results, startCur, sentLife, repeats, nodup,
                   ahead, wfail, syncStart, wfailLife, raised, owed, sched,
                   net, env, bot, listing>>

NextFeed ==
    \/ \E ok \in SUBSET Urls : ScrapeCouponScorpion(ok)
    \/ \E order \in Listings, ok \in SUBSET Urls : ScrapeDiscUdemy(order, ok)

SpecFeed == InitFeed /\ [][NextFeed]_vars

(***************************************************************************)
(* bot.py: the coupon database, scrape_discudemy and send_coupon           *)
(***************************************************************************)
MAX_RETRY_ATTEMPTS == 3
max_attempts == 3
telegram_attempts == 3

\* STATIC_COUPONS: the fallback coupons
STATIC_COUPONS ==
    << <<"the-complete-python-bootcamp-from-zero-to-expert", "ST6MT60525G3">> >>

\* the keyword parameters of DiscUdemyScraper.__init__(self, timeout=15)
DiscUdemyScraper_init == {"timeout"}

\* the keyword parameters of DiscUdemyScraper.scrape(self, max_pages=5,
\* delay_range=(2, 5))
DiscUdemyScraper_scrape == {"max_pages", "delay_range"}

\* a call with keyword arguments raises TypeError unless the function has a
\* parameter of each name
Accepts(params, kwargs) == kwargs \subseteq params

\* scrape_discudemy: [(item['slug'], item['coupon_code']) for item in results
\* if item['slug'] and item['coupon_code']]
CouponsOf(scraped) ==
    LET Valid(item) == Truthy(item.slug) /\ Truthy(item.coupon_code)
        valid == SelectSeq(scraped, Valid)
    IN [k \in 1..Len(valid) |-> <<valid[k].slug, valid[k].coupon_code>>]

\* the slugs of a list of (slug, coupon_code) tuples
SlugsOf(coupons) == {coupons[k][1] : k \in 1..Len(coupons)}

\* CouponDatabase.update_coupons
update_coupons(db, new_coupons) ==
    LET NotPosted(c) == c[1] \notin db.posted_slugs
    IN [db EXCEPT !.coupons = @ \o SelectSeq(new_coupons, NotPosted)]

\* CouponDatabase.get_next_coupon: the coupon it returns is left in held
get_next_coupon(db) ==
    IF db.coupons = <<>>
    THEN [db EXCEPT !.held = STATIC_COUPONS[1]]
    ELSE [db EXCEPT !.coupons = Tail(@),
                    !.posted_slugs = @ \cup {db.coupons[1][1]},
                    !.held = db.coupons[1],
                    !.handed = Append(@, db.coupons[1][1]),
                    !.popped = Append(@, db.coupons[1][1])]

\* every variable of the worker: bot.py leaves them alone
workervars == <<up, pc, src, last_sent_state, disk, items, fresh, i, cycles,
                crashes, outcome, results, startCur, sentLife, repeats,
                nodup, ahead, wfail, syncStart, wfailLife, raised, owed,
                sched, net, env, listing>>

\* bot.py started on a day when the listing page of DiscUdemy shows listing
InitBot ==
    /\ up = FALSE
    /\ pc = "idle"
    /\ src = 0
    /\ last_sent_state = EmptyDict
    /\ disk = FileMissing
    /\ items = <<>>
    /\ fresh = <<>>
    /\ i = 0
    /\ cycles = 0
    /\ crashes = 0
    /\ outcome = "none"
    /\ results = <<>>
    /\ startCur = None
    /\ sentLife = NoneSent
    /\ repeats = FALSE
    /\ nodup = TRUE
    /\ ahead = TRUE
    /\ wfail = 0
    /\ syncStart = TRUE
    /\ wfailLife = FALSE
    /\ raised = {}
    /\ owed = {}
    /\ sched = "waiting"
    /\ net = NetIdle
    /\ env = EnvSet
    /\ bot = BotIdle
    /\ listing \in Listings

\* scrape_discudemy returns; __main__ goes on to its first send_coupon
ScrapeReturn(db) ==
    [db EXCEPT !.scrape = "idle",
               !.main = IF @ = "scrape" THEN "send" ELSE @]

\* send_coupon returns; __main__ goes on to scheduler.start()
SendReturn(db) ==
    [db EXCEPT !.pc = "idle",
               !.main = IF @ = "send" THEN "scheduler" ELSE @]

\* scrape_discudemy is called, by __main__ or by its interval job
\* (MaxCycles calls are followed)
ScrapeStart ==
    /\ bot.scrape = "idle"
    /\ bot.main \in {"scrape", "scheduler"}
    /\ bot.scrapes < MaxCycles
    /\ bot' = [bot EXCEPT !.scrape = "loop", !.retry_count = 0,
                          !.scrapes = @ + 1]
    /\ UNCHANGED workervars

\* one pass of the while loop of scrape_discudemy: the scraper is made with
\* DiscUdemyScraper(headless=True) and asked for scrape(max_pages=MAX_PAGES);
\* an exception of either call, or an empty result, counts one retry; a
\* result goes to update_coupons and ends the loop
ScrapeAttempt(order, ok) ==
    /\ bot.scrape = "loop"
    /\ bot.retry_count < MAX_RETRY_ATTEMPTS
    /\ order \in ListOfSet(listing)
    /\ LET scraped == Extracted(order, ok)
       IN IF /\ Accepts(DiscUdemyScraper_init, {"headless"})
             /\ Accepts(DiscUdemyScraper_scrape, {"max_pages"})
             /\ scraped # <<>>
          THEN bot' = ScrapeReturn(
                        [update_coupons(bot, CouponsOf(scraped))
                            EXCEPT !.yielded = SlugsOf(CouponsOf(scraped))])
          ELSE bot' = [bot EXCEPT !.retry_count = @ + 1,
                                  !.yielded = SlugsOf(CouponsOf(scraped))]
    /\ UNCHANGED workervars

\* scrape_discudemy: the loop ends after MAX_RETRY_ATTEMPTS retries
ScrapeGiveUp ==
    /\ bot.scrape = "loop"
    /\ bot.retry_count >= MAX_RETRY_ATTEMPTS
    /\ bot' = ScrapeReturn(bot)
    /\ UNCHANGED workervars

\* send_coupon is called, by __main__ or by its interval job
\* (MaxCycles calls are followed)
SendStart ==
    /\ bot.pc = "idle"
    /\ bot.main \in {"send", "scheduler"}
    /\ bot.sends < MaxCycles
    /\ bot' = [bot EXCEPT !.pc = "attempt", !.attempt = 0, !.tg = 0,
                          !.held = None, !.popped = <<>>,
                          !.sends = @ + 1]
    /\ UNCHANGED workervars

\* send_coupon, the top of one pass of `for attempt in range(max_attempts)`:
\* slug, coupon = coupon_db.get_next_coupon(); the details of the course
\* fall back on defaults when they cannot be fetched
GetNext ==
    /\ bot.pc = "attempt"
    /\ bot' = [get_next_coupon(bot) EXCEPT !.pc = "post", !.tg = 0]
    /\ UNCHANGED workervars

\* send_coupon: Telegram answers ok; return
TelegramOk ==
    /\ bot.pc = "post"
    /\ bot' = SendReturn([bot EXCEPT !.delivered = @ \cup {bot.held[1]}])
    /\ UNCHANGED workervars

\* send_coupon: a Telegram request fails or is answered not ok; after the
\* last of them the exception ends this pass of the outer loop, and the
\* last pass ends send_coupon
TelegramFail ==
    /\ bot.pc = "post"
    /\ bot' = IF bot.tg < telegram_attempts - 1
              THEN [bot EXCEPT !.tg = @ + 1]
              ELSE IF bot.attempt < max_attempts - 1
                   THEN [bot EXCEPT !.attempt = @ + 1, !.pc = "attempt"]
                   ELSE SendReturn(bot)
    /\ UNCHANGED workervars

NextBot ==
    \/ ScrapeStart
    \/ \E order \in Listings, ok \in SUBSET Urls : ScrapeAttempt(order, ok)
    \/ ScrapeGiveUp
    \/ SendStart
    \/ GetNext
    \/ TelegramOk
    \/ TelegramFail

SpecBot == InitBot /\ [][NextBot]_vars

(***************************************************************************)
(* The coupon database and send_coupon with a scrape job that delivers     *)
(***************************************************************************)
\* the lists scrape_discudemy can hand to update_coupons: up to two coupons
\* of two courses
ScrapedCoupons ==
    {CouponsOf(Extracted(l, Urls)) :
        l \in UNION {[1..n -> {"u1", "u2"}] : n \in 0..2}}

\* the scheduler is running and no scrape has delivered yet
InitQueue ==
    /\ up = FALSE
    /\ pc = "idle"
    /\ src = 0
    /\ last_sent_state = EmptyDict
    /\ disk = FileMissing
    /\ items = <<>>
    /\ fresh = <<>>
    /\ i = 0
    /\ cycles = 0
    /\ crashes = 0
    /\ outcome = "none"
    /\ results = <<>>
    /\ startCur = None
    /\ sentLife = NoneSent
    /\ repeats = FALSE
    /\ nodup = TRUE
    /\ ahead = TRUE
    /\ wfail = 0
    /\ syncStart = TRUE
    /\ wfailLife = FALSE
    /\ raised = {}
    /\ owed = {}
    /\ sched = "waiting"
    /\ net = NetIdle
    /\ env = EnvSet
    /\ bot = [BotIdle EXCEPT !.main = "scheduler"]
    /\ listing = <<>>

\* the scrape job calls coupon_db.update_coupons(coupons)
UpdateCoupons(new_coupons) ==
    /\ bot.scrapes < MaxCycles
    /\ bot' = [update_coupons(bot, new_coupons) EXCEPT !.scrapes = @ + 1]
    /\ UNCHANGED workervars

NextQueue ==
    \/ \E new_coupons \in ScrapedCoupons : UpdateCoupons(new_coupons)
    \/ SendStart
    \/ GetNext
    \/ TelegramOk
    \/ TelegramFail

SpecQueue == InitQueue /\ [][NextQueue]_vars

\* first position of the page whose item has the id, 0 if there is none
FirstAt(page, source, id) ==
    LET hits == {k \in 1..Len(page) : ItemId(source, page[k]) = id}
    IN IF hits = {} THEN 0 ELSE CHOOSE k \in hits : \A h \in hits : k <= h

(***************************************************************************)
(* Properties of find_new (checked under SpecResolve)                      *)
(***************************************************************************)
\* C2 (as claimed): when the cursor is set and no item of the page has its
\* id, find_new returns at most the newest 10 items (the largest fallback
\* cap), never the whole page.
C2_FallbackCapped ==
    (pc = "resolved" /\ startCur # None /\ FirstAt(items, name, startCur) = 0)
        => Len(fresh) <= 10

\* C3: when the cursor's id first occurs at position k of the page, find_new
\* returns exactly the k-1 items ahead of it, oldest first, without the
\* matched item.
C3_CursorFound ==
    pc = "resolved" =>
        LET k == FirstAt(items, name, startCur)
        IN k > 0 =>
            /\ Len(fresh) = k - 1
            /\ \A j \in 1..(k - 1) : fresh[j] = items[k - j]

\* C3 witness: the cursor's id first occurs at the last position of a page of
\* three items, and the two items ahead of it are returned
C3_Witness ==
    /\ pc = "resolved"
    /\ Len(items) = 3
    /\ FirstAt(items, name, startCur) = 3
    /\ fresh = <<items[2], items[1]>>
    /\ items[1] # items[2]

\* C4: with the cursor unset and a non-empty page, find_new returns all the
\* items of the page, oldest first.
C4_FirstRun ==
    (pc = "resolved" /\ startCur = None /\ items # <<>>) =>
        /\ Len(fresh) = Len(items)
        /\ \A k \in 1..Len(items) : fresh[k] = items[Len(items) + 1 - k]

\* C4 witness: an unset cursor and a page of three items of which the newest
\* and the oldest differ
C4_Witness ==
    /\ pc = "resolved"
    /\ startCur = None
    /\ Len(items) = 3
    /\ items[1] # items[3]
    /\ fresh[1] = items[3]

(***************************************************************************)
(* Properties of the dispatch loop (checked under Spec)                    *)
(***************************************************************************)
\* ids the current batch has posted successfully
SentBatch == {ItemId(name, fresh[k]) : k \in {j \in 1..Len(results) : results[j]}}

\* what find_new returns for the same page once the process has started
\* again from the file
Resend == find_new(items, Get(LoadState(disk), name), name)

\* number of items of Resend that the batch had posted already
Reposted ==
    Cardinality({k \in 1..Len(Resend) : ItemId(name, Resend[k]) \in SentBatch})

\* the cursor the batch should have reached: the id of the last item, in
\* posting order, whose post succeeded, or the cursor the batch started with
LastOkId ==
    LET ok == {k \in 1..Len(results) : results[k]}
    IN IF ok = {} THEN startCur
       ELSE ItemId(name, fresh[CHOOSE k \in ok : \A h \in ok : h <= k])

\* C1 (as claimed, read with pages free of duplicate ids): with no crash and
\* no failed write, no id is posted twice for one source, whatever pages the
\* source returns.
C1_NoRepost ==
    (crashes = 0 /\ ~wfailLife /\ nodup) => ~repeats

\* C1 (amended): within one process lifetime no id is posted twice for one
\* source, provided every page is free of duplicate ids and, once the cursor
\* is set, lists the cursor's item with only not yet posted items ahead of it.
C1_NoRepostOrderly ==
    (nodup /\ ahead) => ~repeats

\* C1 witness: in a second cycle a new item is being posted from an orderly
\* page that still lists two items posted in the first cycle
C1_Witness ==
    /\ up /\ nodup /\ ahead
    /\ cycles = 2
    /\ pc = "save"
    /\ startCur # None
    /\ Len(items) = 3
    /\ Cardinality(sentLife[name]) = 3

\* C5: when the post of the next item is about to be attempted (or the batch
\* has ended) after a successful post, the in-memory cursor is the posted
\* item's id and the store has been written: the file holds the in-memory
\* cursors unless that write failed.
C5_PerPostAdvance ==
    (up /\ pc \in {"send", "close"} /\ Len(results) > 0
        /\ results[Len(results)]) =>
        /\ Cursor(name) = ItemId(name, fresh[Len(results)])
        /\ wfail = 0 => disk = FileOf(last_sent_state)

\* C5 witness: the first item of a batch was posted and written, and the post
\* of the second one is about to be attempted
C5_Witness ==
    /\ up
    /\ pc = "send"
    /\ i = 2
    /\ results = <<TRUE>>
    /\ disk = FileOf(last_sent_state)
    /\ Cursor(name) = ItemId(name, fresh[1])

\* C6: during and at the end of a batch the cursor is the id of the last
\* item, in posting order, whose post succeeded (the cursor the batch started
\* with if none did), so a failed post does not advance it; and when the
\* batch ends every item of it has been attempted.
C6_PostFailure ==
    (up /\ outcome = "batch") =>
        /\ Cursor(name) = LastOkId
        /\ pc = "close" => Len(results) = Len(fresh)

\* C6 witness: of a page of three items, first run, only the post of the
\* middle one failed, and the cursor ends at the id of the newest item
C6_Witness ==
    /\ up
    /\ pc = "close"
    /\ startCur = None
    /\ results = <<TRUE, FALSE, TRUE>>
    /\ NoDupIds(items, name)
    /\ Cursor(name) = ItemId(name, items[1])

\* C7 (as claimed, read with writes that succeed and a page free of duplicate
\* ids): wherever in a batch the process crashes, at most one item the batch
\* had posted is posted again after the restart on the same page.
C7_AtMostOneResent ==
    (~up /\ outcome = "batch" /\ ~wfailLife /\ NoDupIds(items, name))
        => Reposted <= 1

\* C8: a failing write leaves the process running the batch: the in-memory
\* cursor is (and stays) the posted item's id and the loop goes on to the
\* next item or returns normally; and whenever find_new resolves a page, no
\* item it returns has the in-memory cursor's id.
C8_WriteFailureNonFatal ==
    [][/\ (up /\ wfail' = wfail + 1) =>
            /\ up'
            /\ Cursor(name) = ItemId(name, course)
            /\ last_sent_state' = last_sent_state
            /\ src' = src
            /\ IF i < Len(fresh)
               THEN pc' = "send" /\ i' = i + 1 /\ fresh' = fresh
               ELSE pc' = "close"
       /\ (up /\ pc = "fetch" /\ outcome' \in {"batch", "nonew"}) =>
            \A k \in 1..Len(fresh') :
                ItemId(name, fresh'[k]) # Cursor(name)
      ]_vars

\* C8 witness: after a failed write the file is behind the memory, and a
\* later cycle has resolved the page, which lists the item, against the
\* in-memory cursor
C8_Witness ==
    /\ up
    /\ cycles = 2
    /\ wfailLife
    /\ ~syncStart
    /\ outcome \in {"batch", "nonew"}
    /\ FirstAt(items, name, startCur) > 0
    /\ Get(LoadState(disk), name) = None

\* C9 (as claimed, read with a file that held the in-memory cursors when the
\* batch began, a page free of duplicate ids and no post in flight): when
\* writes of the batch have failed and the process crashes before the next
\* successful write, exactly one posted item is posted again after the
\* restart on the same page.
C9_ExactlyOneReposted ==
    (~up /\ outcome = "batch" /\ pc \in {"send", "close"} /\ wfail >= 1
        /\ syncStart /\ NoDupIds(items, name))
        => Reposted = 1

\* C9 (amended): in that case the batch's posted items that are posted again
\* are one per failed write, and the in-flight one if the crash falls between
\* a post and its write; or every item the batch had posted, if a failed
\* write left the file truncated.
C9_RepostedPerFailedWrite ==
    (~up /\ outcome = "batch" /\ wfail >= 1 /\ syncStart
        /\ NoDupIds(items, name))
        => Reposted = IF disk.st = "torn" THEN Cardinality(SentBatch)
                      ELSE wfail + (IF pc = "save" THEN 1 ELSE 0)

\* C9 witness: two writes in a row failed, the file is intact, the process
\* crashed, and two posted items would be posted again
C9_Witness ==
    /\ ~up
    /\ outcome = "batch"
    /\ pc \in {"send", "close"}
    /\ wfail = 2
    /\ syncStart
    /\ NoDupIds(items, name)
    /\ disk.st # "torn"
    /\ Reposted = 2

\* C10: a source whose scrape raised is not posted from in that cycle, the
\* step in which the scrape raises and the return from process_source change
\* neither the cursors in memory nor the file nor what was posted, and every
\* source whose scrape raised in a cycle has had its scrape called again by
\* the end of the next cycle.
C10_FetchFailure ==
    /\ [](up => /\ pc \in {"send", "save", "dump"} => name \notin raised
                /\ pc = "idle" => owed = {})
    /\ [][(/\ up /\ up'
           /\ \/ pc = "fetch" /\ outcome' = "raised"
              \/ pc = "close" /\ outcome = "raised") =>
            /\ UNCHANGED <<last_sent_state, disk, sentLife>>
            /\ pc = "fetch" => pc' = "close" /\ src' = src
         ]_vars

\* C10 witness: in the second cycle the scrape of the source that raised in
\* the first cycle was called again (and raised again), the cursor of the
\* other source being set
C10_Witness ==
    /\ up
    /\ cycles = 2
    /\ pc = "close"
    /\ outcome = "raised"
    /\ name \in raised
    /\ owed = {}
    /\ Cursor("couponscorpion") # None

(***************************************************************************)
(* Properties of the job (checked under Spec)                              *)
(***************************************************************************)
\* C11: while the process runs, whatever happens in the handling of a source
\* that is not the last one (a failed post, a failed write, an empty page),
\* the job stays with that source or goes on to the scrape of the next one;
\* it never ends before the sources behind it have been processed.
C11_ErrorIsolation ==
    [][(up /\ up' /\ src \in 1..(Len(SOURCES) - 1)) =>
          \/ src' = src /\ pc' # "idle"
          \/ src' = src + 1 /\ pc' = "fetch"
      ]_vars

\* C11 witness: in the first cycle a write failed while the first source was
\* handled, and the scrape of the second source has been called (and raised)
C11_Witness ==
    /\ up
    /\ crashes = 0
    /\ cycles = 1
    /\ wfailLife
    /\ src = 2
    /\ pc = "close"
    /\ outcome = "raised"

\* C12: a cycle begins only when no cycle is running (the job is at rest,
\* with no source in hand), a firing of the interval that finds the job
\* running is skipped and changes nothing of the program, and the file is
\* written only by the cycle that is running.
C12_OneCycleAtATime ==
    [][/\ (up /\ cycles' # cycles) =>
            pc = "idle" /\ src = 0 /\ pc' = "fetch" /\ src' = 1
       /\ (up /\ sched # "skipped" /\ sched' = "skipped") =>
            /\ pc # "idle"
            /\ UNCHANGED <<pc, src, last_sent_state, disk, items, fresh, i,
                           cycles, sentLife>>
       /\ (up /\ disk' # disk) => pc \in {"save", "dump"} /\ cycles' = cycles
      ]_vars

\* C12 witness: the interval elapsed while the second cycle was writing the
\* file, between the truncation and the dump, and the run was skipped
C12_Witness ==
    /\ up
    /\ cycles = 2
    /\ pc = "dump"
    /\ sched = "skipped"
    /\ disk = FileTorn

\* C13 (as claimed): the cycle is run once at process start, so when the
\* scheduler's interval elapses for the first time since process start, a
\* cycle has been run already.
C13_StartupCycle ==
    [][(up /\ crashes = 0 /\ sched = "waiting" /\ sched' # "waiting") =>
          cycles >= 1
      ]_vars

(***************************************************************************)
(* Properties of make_id and find_new (checked under SpecResolve)          *)
(***************************************************************************)
\* the empty string in place of a missing value
OrEmpty(v) == IF v = None THEN "" ELSE v

\* C14 (as claimed): the id of every item of the page is the source, "|",
\* the slug, ":" and the coupon code, a missing slug or coupon code (the key
\* absent, or None) counting as the empty string.
C14_MissingIsEmpty ==
    \A k \in 1..Len(items) :
        ItemId(name, items[k]) =
            name \o "|" \o OrEmpty(Get(items[k], "slug")) \o ":"
                 \o OrEmpty(Get(items[k], "coupon_code"))

(***************************************************************************)
(* Order of the sources (checked under Spec)                               *)
(***************************************************************************)
\* C15: the scrape of a source is called either when the job begins, and
\* then it is couponscorpion's, or when the handling of couponscorpion has
\* returned, and then it is discudemy's: by then every item of
\* couponscorpion's batch has been attempted and no write is in progress.
C15_FixedOrder ==
    [][(up /\ up' /\ pc' = "fetch" /\ (pc # "fetch" \/ src' # src)) =>
          \/ /\ pc = "idle"
             /\ name' = "couponscorpion"
          \/ /\ pc = "close"
             /\ name = "couponscorpion"
             /\ name' = "discudemy"
             /\ outcome = "batch" => Len(results) = Len(fresh)
      ]_vars

\* C15 witness: the scrape of discudemy is about to be called in the first
\* cycle, after three items of couponscorpion were posted and written
C15_Witness ==
    /\ up
    /\ crashes = 0
    /\ cycles = 1
    /\ pc = "fetch"
    /\ name = "discudemy"
    /\ Cardinality(sentLife["couponscorpion"]) = 3
    /\ disk = FileOf(last_sent_state)

(***************************************************************************)
(* The end-to-end scenarios (checked under SpecTimed)                      *)
(***************************************************************************)
\* every post of the batch so far succeeded
AllOk == \A k \in 1..Len(results) : results[k]

\* C16: with the cursor unset and the page [A,B,C,D], the batch is D, C, B, A
\* and its items are posted in that order; once all four posts have succeeded
\* the cursor is the id of A. With the cursor at the id of A and the page
\* [E,A,B,C], the batch is E alone, and once its post has succeeded the
\* cursor is the id of E.
C16_Scenarios ==
    /\ (up /\ outcome = "batch" /\ items = PageABCD /\ startCur = None) =>
            /\ fresh = <<ScenarioItem("D"), ScenarioItem("C"),
                         ScenarioItem("B"), ScenarioItem("A")>>
            /\ pc = "send" => i = Len(results) + 1
            /\ (pc = "close" /\ AllOk) =>
                    Cursor(name) = ItemId(name, ScenarioItem("A"))
    /\ (up /\ outcome \in {"batch", "nonew"} /\ items = PageEABC
            /\ startCur = ItemId(name, ScenarioItem("A"))) =>
            /\ fresh = <<ScenarioItem("E")>>
            /\ (pc = "close" /\ AllOk) =>
                    /\ results = <<TRUE>>
                    /\ Cursor(name) = ItemId(name, ScenarioItem("E"))

\* C16 witness: the second cycle of a process that posted D, C, B, A in its
\* first one has posted E from the page [E,A,B,C], and nothing else
C16_Witness ==
    /\ up
    /\ crashes = 0
    /\ cycles = 2
    /\ pc = "close"
    /\ items = PageEABC
    /\ startCur = ItemId(name, ScenarioItem("A"))
    /\ results = <<TRUE>>
    /\ Cardinality(sentLife[name]) = 5
    /\ Cursor(name) = ItemId(name, ScenarioItem("E"))

\* C17 (as claimed): whatever ids the page repeats, no two items of what
\* find_new returns have the same id.
C17_NoDuplicateInResult ==
    pc = "resolved" => NoDupIds(fresh, name)

(***************************************************************************)
(* The file across a shutdown (checked under Spec)                         *)
(***************************************************************************)
\* C18 (as claimed): whenever the process is down, the file is absent or
\* holds a complete document, never a partly written one.
C18_WriteNotTorn ==
    ~up => disk.st # "torn"

(***************************************************************************)
(* Cycles with nothing to post (checked under Spec)                        *)
(***************************************************************************)
\* C19: when scrape returns an empty page, or a page on which find_new finds
\* nothing new (as it does when the cursor's item is the first of the page),
\* process_source returns without a post; the step that resolves the page
\* and the return change neither the cursors in memory nor the file nor what
\* was posted.
C19_NoOpCycle ==
    /\ [](up =>
            /\ outcome \in {"empty", "nonew"} =>
                    /\ pc = "close"
                    /\ results = <<>>
                    /\ Cursor(name) = startCur
            /\ (outcome \in {"batch", "nonew"}
                    /\ FirstAt(items, name, startCur) = 1) => outcome = "nonew")
    /\ [][(/\ up /\ up'
           /\ \/ pc = "fetch" /\ outcome' \in {"empty", "nonew"}
              \/ pc = "close" /\ outcome \in {"empty", "nonew"}) =>
            /\ UNCHANGED <<last_sent_state, disk, sentLife>>
            /\ pc = "fetch" => pc' = "close" /\ src' = src
         ]_vars

\* C19 witness: in the second cycle the cursor's item is the first of a page
\* of three, nothing is posted, and the file, which a failed write left
\* behind the memory, is still behind it
C19_Witness ==
    /\ up
    /\ cycles = 2
    /\ pc = "close"
    /\ outcome = "nonew"
    /\ Len(items) = 3
    /\ FirstAt(items, name, startCur) = 1
    /\ disk # FileOf(last_sent_state)

(***************************************************************************)
(* Properties of the network calls (checked under SpecNet)                 *)
(***************************************************************************)
\* C20 (as claimed): every attempt of a call after its first one comes after
\* a delay: the last thing that happened before a retry's request is a sleep.
C20_BackoffBetweenAttempts ==
    (pc = "net" /\ net.st = "request" /\ net.attempt > 1) =>
        net.log[Len(net.log)] = "sleep"

(***************************************************************************)
(* Startup (checked under Spec)                                            *)
(***************************************************************************)
\* C21: with BOT_TOKEN or CHANNEL_ID missing (unset or empty) the process
\* never runs: no cycle is started, nothing is posted and the file is as it
\* was (absent).
C21_ConfigErrorFatal ==
    (~Truthy(env.BOT_TOKEN) \/ ~Truthy(env.CHANNEL_ID)) =>
        /\ ~up
        /\ pc \in {"idle", "exited"}
        /\ cycles = 0
        /\ sentLife = NoneSent
        /\ disk = FileMissing

\* C21 witness: the process was started with BOT_TOKEN set and CHANNEL_ID
\* unset, and has exited
C21_Witness ==
    /\ env = [BOT_TOKEN |-> "set", CHANNEL_ID |-> None]
    /\ pc = "exited"
    /\ ~up

(***************************************************************************)
(* The document of the file (checked under SpecStore)                      *)
(***************************************************************************)
\* C22 (as claimed): the extra key of the file is loaded with the cursors,
\* and whenever the file holds a document, whatever was written since, the
\* extra key is in it.
C22_ExtraKeysKept ==
    /\ up => "legacy" \in DOMAIN last_sent_state
    /\ disk.st = "ok" => "legacy" \in DOMAIN disk.data

(***************************************************************************)
(* Order of the feeds (checked under SpecFeed)                             *)
(***************************************************************************)
\* position of the URL's first card on the listing page
CardAt(u) == CHOOSE k \in 1..Len(listing) :
                /\ listing[k] = u
                /\ \A j \in 1..(k - 1) : listing[j] # u

\* C23 (as claimed): the items a scraper returns are in the order in which
\* the listing page presents them: of any two, the one returned first is
\* the one whose card comes first.
C23_NewestFirst ==
    pc = "scraped" =>
        \A j, k \in 1..Len(items) :
            j < k => CardAt(items[j].slug) < CardAt(items[k].slug)

(***************************************************************************)
(* The id and the presentation fields (checked under SpecResolve)          *)
(***************************************************************************)
\* the items have the same slug and the same coupon code
SameOffer(it1, it2) ==
    /\ Get(it1, "slug") = Get(it2, "slug")
    /\ Get(it1, "coupon_code") = Get(it2, "coupon_code")

\* C24: two items of a page with the same slug and coupon code have the same
\* id for the source, whatever their titles; and when the cursor is the id
\* of an item with the slug and coupon code of an item of the page, find_new
\* stops at the first such item of the page, whatever their titles.
C24_PresentationIgnored ==
    /\ \A j, k \in 1..Len(items) :
            SameOffer(items[j], items[k]) =>
                ItemId(name, items[j]) = ItemId(name, items[k])
    /\ pc = "resolved" =>
            LET same == {k \in 1..Len(items) :
                            \E it \in ResolveItems :
                                /\ SameOffer(it, items[k])
                                /\ make_id(name, it.slug, it.coupon_code)
                                        = startCur}
            IN \A k \in same :
                    (\A j \in same : k <= j) => Len(fresh) = k - 1

\* C24 witness: the second and the third item of a page differ in the title
\* only, the cursor is their id, and find_new returned the first item alone
C24_Witness ==
    /\ pc = "resolved"
    /\ Len(items) = 3
    /\ SameOffer(items[2], items[3])
    /\ items[2].title # items[3].title
    /\ ~SameOffer(items[1], items[2])
    /\ startCur = make_id(name, items[3].slug, items[3].coupon_code)
    /\ fresh = <<items[1]>>

(***************************************************************************)
(* The coupon queue of bot.py (checked under SpecQueue and SpecBot)        *)
(***************************************************************************)
\* C25: get_next_coupon never returns a scraped slug twice, no slug is in
\* the queue twice, and no slug it has returned is in the queue.
C25_EachSlugOnce ==
    /\ \A j, k \in 1..Len(bot.handed) :
            bot.handed[j] = bot.handed[k] => j = k
    /\ \A j, k \in 1..Len(bot.coupons) :
            bot.coupons[j][1] = bot.coupons[k][1] => j = k
    /\ SlugsOf(bot.coupons) \cap {bot.handed[k] : k \in 1..Len(bot.handed)}
            = {}

\* C26: one call of send_coupon takes at most one coupon from the queue, and
\* when no call is in progress every slug in posted_slugs is the slug of a
\* message Telegram accepted.
C26_OneCouponPerSend ==
    /\ Len(bot.popped) <= 1
    /\ bot.pc = "idle" => bot.posted_slugs \subseteq bot.delivered

\* C28: when scrape_discudemy has returned and DiscUdemy had valid coupons
\* for its last pass, each of them is in the queue or has been posted.
C28_ScrapeEnqueues ==
    (bot.scrapes >= 1 /\ bot.scrape = "idle" /\ bot.yielded # {}) =>
        bot.yielded \subseteq SlugsOf(bot.coupons) \cup bot.posted_slugs

(***************************************************************************)
(* The scrape call of the worker (checked under Spec)                      *)
(***************************************************************************)
\* C27: when process_source is done with discudemy, its call of scrape did
\* not raise: the scraper accepted the arguments, so the items of its
\* listing could be resolved and posted and its cursor set.
C27_DiscudemyScrapeAccepted ==
    (up /\ pc = "close" /\ name = "discudemy") => outcome # "raised"

(***************************************************************************)
(* The fate of an item whose post failed (checked under Spec)              *)
(***************************************************************************)
\* what find_new returns in the next cycle when the page is the same
NextBatch == find_new(items, Cursor(name), name)

\* the ids of the items of a batch
BatchIds(batch) == {ItemId(name, batch[k]) : k \in 1..Len(batch)}

\* C29: at the end of a batch, an item whose post failed is in the batch of
\* the next cycle over the same page when no newer item of the batch was
\* posted, and is not in it when a newer item of the batch was posted.
C29_FailedPostFate ==
    (up /\ pc = "close" /\ fresh # <<>> /\ Len(results) = Len(fresh)) =>
        \A k \in 1..Len(fresh) :
            ~results[k] =>
                IF \E j \in (k + 1)..Len(fresh) : results[j]
                THEN ItemId(name, fresh[k]) \notin BatchIds(NextBatch)
                ELSE ItemId(name, fresh[k]) \in BatchIds(NextBatch)

(***************************************************************************)
(* The steps that change a cursor (checked under Spec)                     *)
(***************************************************************************)
\* C30: while the worker runs, a step changes last_sent_state only when it
\* is a successful post: the step is taken at the send of the current item
\* of the current source and records True for it, the cursor of that source
\* becomes "<source>|<slug>:<coupon_code>" of that item, and the cursor of
\* every other source stays as it is. Failed posts, failed fetches and
\* empty pages change no cursor.
C30_CursorDiscipline ==
    [][(up /\ up' /\ last_sent_state' # last_sent_state) =>
            /\ pc = "send"
            /\ results' = Append(results, TRUE)
            /\ Get(last_sent_state', name) =
                    name \o "|" \o Str(Get(course, "slug"))
                         \o ":" \o Str(Get(course, "coupon_code"))
            /\ DOMAIN last_sent_state' = DOMAIN last_sent_state \cup {name}
            /\ \A s \in DOMAIN last_sent_state' \ {name} :
                    Get(last_sent_state', s) = Get(last_sent_state, s)]_vars

\* C30 witness: the second item of a batch of couponscorpion has just been
\* posted after the post of the first had failed; the cursor of
\* couponscorpion is its id and the cursor of discudemy is as it was
C30_Witness ==
    /\ up
    /\ pc = "save"
    /\ name = "couponscorpion"
    /\ results = <<FALSE, TRUE>>
    /\ Cursor(name) = ItemId(name, course)
    /\ Cursor(name) # startCur
    /\ Cursor("discudemy") = None

====
